---- MODULE Spec2Model ----
(***************************************************************************)
(* Model of the ADS1015/ADS1115 IIO driver (ti-ads1015.c).                 *)
(*                                                                         *)
(* The model is an untimed interleaving of                                 *)
(*   - one direct reader/writer context (ads1015_read_raw/_write_raw),     *)
(*   - the threaded interrupt (ads1015_irq_handler and                     *)
(*     ads1015_irq_handler_thread),                                        *)
(*   - the buffer life-cycle hooks called by the IIO core                  *)
(*     (ads1015_buffer_preenable / ads1015_buffer_postdisable),            *)
(*   - the runtime-PM callbacks (ads1015_runtime_suspend/_resume).         *)
(* Every register access (regmap_read/regmap_write/regmap_update_bits) is  *)
(* a step of its own, and may fail.  The autosuspend delay and the period  *)
(* of the data-ready interrupt are not modelled: the delay is tunable from *)
(* user space down to zero, so no ordering between the delayed suspend and *)
(* the interrupts is assumed.                                              *)
(***************************************************************************)
EXTENDS Integers, Sequences, FiniteSets, TLC

----------------------------------------------------------------------------
(* Bounds of the model *)

\* direct reads, writes and scans use the channels 0..MaxChan
MaxChan == 0
\* the clock iio_get_time_ns reads runs from 0 to MaxTime
MaxTime == 2

----------------------------------------------------------------------------
(* Program constants *)

ADS1015_CFG_COMP_QUE_MASK == 3
ADS1015_CFG_DR_SHIFT == 5
ADS1015_CFG_MOD_SHIFT == 8
ADS1015_CFG_PGA_SHIFT == 9
ADS1015_CFG_MUX_SHIFT == 12
ADS1015_CFG_DR_MASK == 224
ADS1015_CFG_MOD_MASK == 256
ADS1015_CFG_PGA_MASK == 3584
ADS1015_CFG_MUX_MASK == 28672

ADS1015_CONTINUOUS == 0
ADS1015_SINGLESHOT == 1

ADS1015_DEFAULT_PGA == 2
ADS1015_DEFAULT_DATA_RATE == 4

\* number of entries of data->channel_data[]
ADS1015_CHANNELS == 8
\* scan index of the soft timestamp; indio_dev->masklength is one more
ADS1015_TIMESTAMP == 8

USEC_PER_SEC == 1000000

\* all ones of a 16 bit register value (val_bits of ads1015_regmap_config)
REG_MAX == 65535

Chips == {"ADS1015", "ADS1115"}

ads1015_data_rate == <<128, 250, 490, 920, 1600, 2400, 3300, 3300>>
ads1115_data_rate == <<8, 16, 32, 64, 128, 250, 475, 860>>
ads1015_fullscale_range == <<6144, 4096, 2048, 1024, 512, 256, 256, 256>>

\* data->data_rate[i], set by ads1015_probe from the chip id (C index i)
data_rate(c, i) == IF c = "ADS1015" THEN ads1015_data_rate[i + 1]
                   ELSE ads1115_data_rate[i + 1]

\* chan->scan_type.realbits of the channel tables
realbits(c) == IF c = "ADS1015" THEN 12 ELSE 16

----------------------------------------------------------------------------
(* C integer operators on register words *)

RECURSIVE BitAnd(_, _)
BitAnd(a, b) ==
    IF a = 0 \/ b = 0 THEN 0
    ELSE 2 * BitAnd(a \div 2, b \div 2)
         + (IF a % 2 = 1 /\ b % 2 = 1 THEN 1 ELSE 0)

RECURSIVE BitOr(_, _)
BitOr(a, b) ==
    IF a = 0 THEN b
    ELSE IF b = 0 THEN a
    ELSE 2 * BitOr(a \div 2, b \div 2)
         + (IF a % 2 = 1 \/ b % 2 = 1 THEN 1 ELSE 0)

RECURSIVE Pow2(_)
Pow2(n) == IF n = 0 THEN 1 ELSE 2 * Pow2(n - 1)

Shl(a, n) == a * Pow2(n)
Shr(a, n) == a \div Pow2(n)
\* ~m restricted to the 16 bits a register value has
BitNot(m) == REG_MAX - m

DIV_ROUND_UP(n, d) == (n + d - 1) \div d

\* fields of a configuration word
CfgMux(w)  == Shr(BitAnd(w, ADS1015_CFG_MUX_MASK), ADS1015_CFG_MUX_SHIFT)
CfgPga(w)  == Shr(BitAnd(w, ADS1015_CFG_PGA_MASK), ADS1015_CFG_PGA_SHIFT)
CfgDr(w)   == Shr(BitAnd(w, ADS1015_CFG_DR_MASK), ADS1015_CFG_DR_SHIFT)
CfgMode(w) == Shr(BitAnd(w, ADS1015_CFG_MOD_MASK), ADS1015_CFG_MOD_SHIFT)

\* regmap_update_bits(map, reg, mask, val) on the word w
UpdateBits(w, mask, val) == BitOr(BitAnd(w, BitNot(mask)), BitAnd(val, mask))

----------------------------------------------------------------------------
(* Inputs drawn by the operations *)

Chans == 0 .. MaxChan
\* (val, val2) pairs written to the scale attribute: 1.0, 0.125, 0.0625, 5.0
ScaleInputs == {<<1, 0>>, <<0, 125000>>, <<0, 62500>>, <<5, 0>>}
\* values written to the sampling-frequency attribute
RateInputs == {1600, 128, 475, 7}
\* error codes a register access can fail with
BusErrors == {"EIO"}
BusResults == {"OK"} \cup BusErrors

----------------------------------------------------------------------------
(* State *)

VARIABLES
    chip,             \* chip id selecting data->data_rate and the channel table
    cfg_reg,          \* the device's configuration register (ADS1015_CFG_REG)
    channel_data,     \* data->channel_data[]: [pga, data_rate] per channel
    conv_invalid,     \* data->conv_invalid
    use_buffer,       \* data->use_buffer
    timestamp,        \* data->timestamp
    now,              \* the clock iio_get_time_ns reads
    lock,             \* owner of data->lock: "none", "read", "thread"
    mlock,            \* direct-mode claim of the IIO core: "none", "direct"
    buffer_enabled,   \* iio_buffer_enabled(indio_dev)
    active_scan_mask, \* indio_dev->active_scan_mask, {} when NULL
    usage_count,      \* runtime-PM usage counter of the device
    rpm_status,       \* runtime-PM status: "active", "suspended"
    rpc,              \* position of ads1015_read_raw (IIO_CHAN_INFO_RAW)
    r_chan,           \* chan->address of the read in progress
    r_res,            \* what that read returned
    tpc,              \* position of the threaded interrupt
    t_res,            \* res of ads1015_irq_handler_thread
    pushed,           \* what the current cycle handed to the sink
    gpc,              \* position inside ads1015_get_adc_result
    g_chan,           \* its chan argument
    g_old,            \* its local old
    g_cfg,            \* its local cfg
    conv_time,        \* its local conv_time (0 until computed)
    ops,              \* register accesses and waits it has issued so far
    monitor,          \* whether the history below is recorded
    pending_resume,   \* history: no call has started since the last resume
    g_saw,            \* history: the call in progress is the first since one
    fresh_enable,     \* history: no cycle has begun since the buffer was enabled
    t_first,          \* history: the cycle in progress is the first since then
    attr              \* the last attribute write, and the last read after it

devvars == <<chip, cfg_reg, channel_data, conv_invalid, use_buffer, timestamp,
            now>>
corevars == <<lock, mlock, buffer_enabled, active_scan_mask, usage_count, rpm_status>>
rvars == <<rpc, r_chan, r_res>>
tvars == <<tpc, t_res, pushed>>
gvars == <<gpc, g_chan, g_old, g_cfg, conv_time, ops>>
hist == <<monitor, pending_resume, g_saw, fresh_enable, t_first>>
vars == <<devvars, corevars, rvars, tvars, gvars, hist, attr>>

\* the variables a step inside ads1015_get_adc_result leaves to its caller
callervars == <<lock, mlock, usage_count, rpc, r_chan, r_res, tpc, t_res>>

\* result of a call: the return code, and for a value read from the
\* conversion register the circumstances of that read
NoRes == [ret |-> "none", path |-> "none", inv |-> FALSE, cur |-> FALSE]
\* a call that returned the error ret
Failed(ret) == [NoRes EXCEPT !.ret = ret]
NoPush == [path |-> "none", inv |-> FALSE, cur |-> FALSE, ts |-> 0]

\* no attribute has been written or read yet
NoAttr ==
    [chan |-> 0,
     w_op |-> "none", w_val |-> 0, w_val2 |-> 0, w_ret |-> "none",
     w_before |-> <<>>, w_rep |-> FALSE,
     r_op |-> "none", r_val |-> 0, r_val2 |-> 0]

DefaultChannelData ==
    [c \in 0 .. ADS1015_CHANNELS - 1 |->
        [pga |-> ADS1015_DEFAULT_PGA, data_rate |-> ADS1015_DEFAULT_DATA_RATE]]

----------------------------------------------------------------------------
(* ads1015_get_adc_result *)

\* a driver that leaves the rate field of the word as it finds it
MergeCfgKeepRate(old, chan, pga, dr) ==
    LET mask == BitOr(ADS1015_CFG_MUX_MASK, ADS1015_CFG_PGA_MASK)
        cfg  == BitOr(Shl(chan, ADS1015_CFG_MUX_SHIFT),
                      Shl(pga, ADS1015_CFG_PGA_SHIFT))
    IN  BitOr(BitAnd(old, BitNot(mask)), BitAnd(cfg, mask))

\* lines 342-349: the word to program for chan, from the word read
MergeCfg(old, chan, pga, dr) ==
    LET mask == BitOr(BitOr(ADS1015_CFG_MUX_MASK, ADS1015_CFG_PGA_MASK),
                      ADS1015_CFG_DR_MASK)
        cfg  == BitOr(BitOr(Shl(chan, ADS1015_CFG_MUX_SHIFT),
                            Shl(pga, ADS1015_CFG_PGA_SHIFT)),
                      Shl(dr, ADS1015_CFG_DR_SHIFT))
    IN  BitOr(BitAnd(old, BitNot(mask)), BitAnd(cfg, mask))

\* a driver that rounds the inflated sum up
ConvTimeRoundedUp(c, old, dr) ==
    LET dr_old == CfgDr(old)
        t == DIV_ROUND_UP(USEC_PER_SEC, data_rate(c, dr_old))
             + DIV_ROUND_UP(USEC_PER_SEC, data_rate(c, dr))
    IN  DIV_ROUND_UP(11 * t, 10)

\* lines 359-362: the settling wait in microseconds
ConvTime(c, old, dr) ==
    LET dr_old == CfgDr(old)
        t == DIV_ROUND_UP(USEC_PER_SEC, data_rate(c, dr_old))
             + DIV_ROUND_UP(USEC_PER_SEC, data_rate(c, dr))
    IN  t + t \div 10

\* the mux, gain and rate fields of word w are those stored for chan
CfgIsFor(w, chan) ==
    /\ chan \in DOMAIN channel_data
    /\ CfgMux(w) = chan
    /\ CfgPga(w) = channel_data[chan].pga
    /\ CfgDr(w) = channel_data[chan].data_rate

ClearCall ==
    /\ gpc' = "none"
    /\ g_chan' = 0
    /\ g_old' = 0
    /\ g_cfg' = 0
    /\ conv_time' = 0
    /\ ops' = <<>>

StartCall(chan) ==
    /\ gpc' = "cfgread"
    /\ g_chan' = chan
    /\ g_old' = 0
    /\ g_cfg' = 0
    /\ conv_time' = 0
    /\ ops' = <<>>

\* a direct read that keeps its power reference when the acquisition failed
ReadRawReturnKeepsPower(res) ==
    /\ rpc' = "ret"
    /\ r_res' = IF res.ret = "OK" THEN [res EXCEPT !.ret = "IIO_VAL_INT"] ELSE res
    /\ r_chan' = 0
    /\ usage_count' = IF res.ret = "OK" THEN usage_count - 1 ELSE usage_count
    /\ mlock' = "none"
    /\ lock' = "none"
    /\ UNCHANGED <<tpc, t_res>>

\* lines 437-452 and 469: ads1015_read_raw after ads1015_get_adc_result
\* returned; both branches drop the power reference, the direct-mode claim
\* and the lock
ReadRawReturn(res) ==
    /\ rpc' = "ret"
    /\ r_res' = IF res.ret = "OK" THEN [res EXCEPT !.ret = "IIO_VAL_INT"] ELSE res
    /\ r_chan' = 0
    /\ usage_count' = usage_count - 1
    /\ mlock' = "none"
    /\ lock' = "none"
    /\ UNCHANGED <<tpc, t_res>>

\* a thread that goes on to the push after a read that failed
AfterReadFailedPush == "push"

\* lines 702 and 716, goto err: a cycle whose read failed skips the push
AfterReadFailed == "done"

\* a thread whose error path leaves without mutex_unlock
ThreadReturnKeepsLock(res) ==
    /\ lock' = IF res.ret = "OK" THEN "none" ELSE lock
    /\ tpc' = IF res.ret = "OK" THEN "push" ELSE AfterReadFailed
    /\ t_res' = [res EXCEPT !.path = "full"]
    /\ UNCHANGED <<mlock, usage_count, rpc, r_chan, r_res>>

\* lines 712-722: ads1015_irq_handler_thread after ads1015_get_adc_result
\* returned
ThreadReturn(res) ==
    /\ lock' = "none"
    /\ tpc' = IF res.ret = "OK" THEN "push" ELSE AfterReadFailed
    /\ t_res' = [res EXCEPT !.path = "full"]
    /\ UNCHANGED <<mlock, usage_count, rpc, r_chan, r_res>>

\* the return of ads1015_get_adc_result to whichever caller holds the lock
Return(res) == IF lock = "read" THEN ReadRawReturn(res) ELSE ThreadReturn(res)

\* a driver that answers every failed register access with -EINVAL
ReturnCodeEinval(err) == "EINVAL"

\* lines 339-340, 354-355 and 367: the code of the failed register access
\* is what the call returns
ReturnCode(err) == err

\* a driver that never waits for the conversion to settle
NeverWait(invalid) == FALSE

\* a driver that waits before every read of the conversion register
AlwaysWait(invalid) == TRUE

\* line 357: the test that decides whether the call waits
MustWait(invalid) == invalid

\* a driver that reads the configuration register before it looks at chan
RangeCheckAfterRead == {"EINVAL"} \cup BusErrors

\* lines 335-336: the range check comes before the first register access,
\* so a bad chan can only end in -EINVAL
RangeCheckResults == {"EINVAL"}

\* lines 335-350, 357-362: range check, read of the configuration register,
\* and the choice of what to do next
get_adc_result_cfgread ==
    /\ gpc = "cfgread"
    /\ IF g_chan < 0 \/ g_chan >= ADS1015_CHANNELS
       THEN /\ \E err \in RangeCheckResults : Return(Failed(err))
            /\ ClearCall
            /\ UNCHANGED <<devvars, buffer_enabled, active_scan_mask, rpm_status,
                           pushed>>
       ELSE \E err \in BusResults :
            IF err # "OK"
            THEN /\ Return(Failed(ReturnCode(err)))
                 /\ ClearCall
                 /\ UNCHANGED <<devvars, buffer_enabled, active_scan_mask,
                                rpm_status, pushed>>
            ELSE LET old == cfg_reg
                     dr  == channel_data[g_chan].data_rate
                     cfg == MergeCfg(old, g_chan, channel_data[g_chan].pga, dr)
                 IN  /\ g_old' = old
                     /\ g_cfg' = cfg
                     /\ ops' = Append(ops, "cfg_read")
                     /\ IF old # cfg
                        THEN gpc' = "cfgwrite" /\ conv_time' = 0
                        ELSE IF MustWait(conv_invalid)
                        THEN gpc' = "wait" /\ conv_time' = ConvTime(chip, old, dr)
                        ELSE gpc' = "convread" /\ conv_time' = 0
                     /\ UNCHANGED <<devvars, corevars, rvars, tvars, g_chan>>

\* lines 352-362: write of the configuration register
get_adc_result_cfgwrite ==
    /\ gpc = "cfgwrite"
    /\ \E err \in BusResults :
       IF err # "OK"
       THEN /\ Return(Failed(ReturnCode(err)))
            /\ ClearCall
            /\ UNCHANGED <<devvars, buffer_enabled, active_scan_mask, rpm_status,
                           pushed>>
       ELSE /\ cfg_reg' = g_cfg
            /\ conv_invalid' = TRUE
            /\ ops' = Append(ops, "cfg_write")
            /\ IF MustWait(TRUE)
               THEN /\ gpc' = "wait"
                    /\ conv_time' = ConvTime(chip, g_old,
                                             channel_data[g_chan].data_rate)
               ELSE gpc' = "convread" /\ conv_time' = 0
            /\ UNCHANGED <<chip, channel_data, use_buffer, timestamp, now, corevars,
                           rvars, tvars, g_chan, g_old, g_cfg>>

\* lines 363-364: the end of usleep_range
get_adc_result_wait ==
    /\ gpc = "wait"
    /\ conv_invalid' = FALSE
    /\ ops' = Append(ops, "wait")
    /\ gpc' = "convread"
    /\ UNCHANGED <<chip, cfg_reg, channel_data, use_buffer, timestamp, now, corevars,
                   rvars, tvars, g_chan, g_old, g_cfg, conv_time>>

\* line 367: read of the conversion register
get_adc_result_convread ==
    /\ gpc = "convread"
    /\ \E err \in BusResults :
       /\ IF err # "OK"
          THEN Return(Failed(ReturnCode(err)))
          ELSE Return([ret |-> "OK", path |-> "full", inv |-> conv_invalid,
                       cur |-> CfgIsFor(cfg_reg, g_chan)])
       /\ ClearCall
       /\ UNCHANGED <<devvars, buffer_enabled, active_scan_mask, rpm_status, pushed>>

----------------------------------------------------------------------------
(* Runtime power management *)

\* ads1015_set_conv_mode as the register sees it
SetConvMode(w, mode) ==
    UpdateBits(w, ADS1015_CFG_MOD_MASK, Shl(mode, ADS1015_CFG_MOD_SHIFT))

\* value of data->conv_invalid after a resume whose mode switch succeeded
ResumeInvalid(invalid) == TRUE

\* ads1015_set_power_state(data, true): pm_runtime_get_sync, which runs
\* ads1015_runtime_resume when the device is suspended; err is the outcome
\* of the resume's register access
PowerOnFails(err) == rpm_status = "suspended" /\ err # "OK"

ads1015_set_power_state_on(err) ==
    IF rpm_status = "suspended"
    THEN IF err = "OK"
         THEN /\ cfg_reg' = SetConvMode(cfg_reg, ADS1015_CONTINUOUS)
              /\ conv_invalid' = ResumeInvalid(conv_invalid)
              /\ rpm_status' = "active"
              /\ usage_count' = usage_count + 1
         ELSE \* pm_runtime_put_noidle undoes the count
              UNCHANGED <<cfg_reg, conv_invalid, rpm_status, usage_count>>
    ELSE /\ usage_count' = usage_count + 1
         /\ UNCHANGED <<cfg_reg, conv_invalid, rpm_status>>

\* lines 287-288: pm_runtime_put_autosuspend only schedules the suspend,
\* and the PM core runs it only while the usage counter is zero
MaySuspend(n) == n = 0

\* ads1015_runtime_suspend, run by the PM core once the device is idle
ads1015_runtime_suspend ==
    /\ rpm_status = "active"
    /\ MaySuspend(usage_count)
    /\ \E err \in BusResults :
       IF err = "OK"
       THEN /\ cfg_reg' = SetConvMode(cfg_reg, ADS1015_SINGLESHOT)
            /\ rpm_status' = "suspended"
       ELSE UNCHANGED <<cfg_reg, rpm_status>>
    /\ UNCHANGED <<chip, channel_data, conv_invalid, use_buffer, timestamp, now, lock,
                   mlock, buffer_enabled, active_scan_mask, usage_count, rvars,
                   tvars, gvars>>

----------------------------------------------------------------------------
(* Buffer life cycle *)

\* the IIO core enabling the buffer on one channel: ads1015_buffer_preenable,
\* then the switch of the device mode
ads1015_buffer_preenable ==
    /\ ~buffer_enabled
    /\ mlock = "none"
    /\ \E chan \in Chans, err \in BusResults :
       /\ ads1015_set_power_state_on(err)
       /\ IF PowerOnFails(err)
          THEN UNCHANGED <<buffer_enabled, active_scan_mask>>
          ELSE /\ buffer_enabled' = TRUE
               /\ active_scan_mask' = {chan}
    /\ UNCHANGED <<chip, channel_data, use_buffer, timestamp, now, lock, mlock, rvars,
                   tvars, gvars>>

\* the IIO core disabling the buffer: the switch back to direct mode, then
\* ads1015_buffer_postdisable
ads1015_buffer_postdisable ==
    /\ buffer_enabled
    /\ mlock = "none"
    /\ buffer_enabled' = FALSE
    /\ active_scan_mask' = {}
    /\ usage_count' = usage_count - 1
    /\ UNCHANGED <<devvars, lock, mlock, rpm_status, rvars, tvars, gvars>>

----------------------------------------------------------------------------
(* ads1015_read_raw, IIO_CHAN_INFO_RAW *)

\* a driver whose direct read does not look at the buffer state
BufferBusyNever(enabled) == FALSE

\* line 420: the test that turns a direct read away
BufferBusy(enabled) == enabled

\* lines 412-424: take the lock, refuse while the buffer is enabled
ads1015_read_raw_begin ==
    /\ rpc = "idle"
    /\ lock = "none"
    /\ \E chan \in Chans :
       IF BufferBusy(buffer_enabled)
       THEN /\ rpc' = "ret"
            /\ r_res' = Failed("EAGAIN")
            /\ UNCHANGED <<lock, r_chan>>
       ELSE /\ rpc' = "claim"
            /\ lock' = "read"
            /\ r_chan' = chan
            /\ UNCHANGED r_res
    /\ UNCHANGED <<devvars, mlock, buffer_enabled, active_scan_mask, usage_count,
                   rpm_status, tvars, gvars>>

\* lines 428-436: claim direct mode, power the device up, enter
\* ads1015_get_adc_result
ads1015_read_raw_claim ==
    /\ rpc = "claim"
    /\ IF buffer_enabled
       THEN \* iio_device_claim_direct_mode refuses
            /\ rpc' = "ret"
            /\ r_res' = Failed("EBUSY")
            /\ r_chan' = 0
            /\ lock' = "none"
            /\ UNCHANGED <<cfg_reg, conv_invalid, rpm_status, usage_count, mlock, gvars>>
       ELSE \E err \in BusResults :
            /\ ads1015_set_power_state_on(err)
            /\ IF PowerOnFails(err)
               THEN /\ rpc' = "ret"
                    /\ r_res' = Failed(err)
                    /\ r_chan' = 0
                    /\ lock' = "none"
                    /\ UNCHANGED <<mlock, gvars>>
               ELSE /\ rpc' = "gar"
                    /\ mlock' = "direct"
                    /\ StartCall(r_chan)
                    /\ UNCHANGED <<r_res, r_chan, lock>>
    /\ UNCHANGED <<chip, channel_data, use_buffer, timestamp, now, buffer_enabled,
                   active_scan_mask, tvars>>

\* the caller has the result
ads1015_read_raw_exit ==
    /\ rpc = "ret"
    /\ rpc' = "idle"
    /\ r_res' = NoRes
    /\ UNCHANGED <<devvars, corevars, r_chan, tvars, gvars>>

----------------------------------------------------------------------------
(* ads1015_write_raw *)

RateTable(c) == IF c = "ADS1015" THEN ads1015_data_rate ELSE ads1115_data_rate

\* C index of the first entry of table equal to v, -1 when there is none
FirstIndex(table, v) ==
    IF \E i \in 1 .. Len(table) : table[i] = v
    THEN (CHOOSE i \in 1 .. Len(table) :
            /\ table[i] = v
            /\ \A j \in 1 .. i - 1 : table[j] # v) - 1
    ELSE -1

\* <<q, r>> with x * 2^n = q * d + r, by doubling: the 64 bit product of
\* line 375 taken apart so that no intermediate value leaves 32 bits
RECURSIVE ShlDivMod(_, _, _)
ShlDivMod(x, n, d) ==
    IF n = 0 THEN <<x \div d, x % d>>
    ELSE LET h == ShlDivMod(x, n - 1, d)
         IN  <<2 * h[1] + (2 * h[2]) \div d, (2 * h[2]) % d>>

\* line 375: ((scale * 1000000 + uscale) << (realbits - 1)) / 1000000,
\* for 0 <= uscale < 1000000
Fullscale(c, scale, uscale) ==
    Shl(scale, realbits(c) - 1) + ShlDivMod(uscale, realbits(c) - 1, 1000000)[1]

\* a driver that falls back to the widest range for a scale it does not know
ads1015_set_scale_fallback(cd, c, chan, scale, uscale) ==
    LET i == FirstIndex(ads1015_fullscale_range, Fullscale(c, scale, uscale))
    IN  IF i >= 0 THEN [cd EXCEPT ![chan].pga = i] ELSE [cd EXCEPT ![chan].pga = 0]

\* lines 370-387: the store after ads1015_set_scale, unchanged on -EINVAL
ads1015_set_scale(cd, c, chan, scale, uscale) ==
    LET i == FirstIndex(ads1015_fullscale_range, Fullscale(c, scale, uscale))
    IN  IF i >= 0 THEN [cd EXCEPT ![chan].pga = i] ELSE cd

\* lines 389-403: the store after ads1015_set_data_rate
ads1015_set_data_rate(cd, c, chan, rate) ==
    LET i == FirstIndex(RateTable(c), rate)
    IN  IF i >= 0 THEN [cd EXCEPT ![chan].data_rate = i] ELSE cd

\* lines 481-486 and 494, IIO_CHAN_INFO_SCALE
ads1015_write_raw_scale ==
    /\ lock = "none"
    /\ \E chan \in Chans, v \in ScaleInputs :
       channel_data' = ads1015_set_scale(channel_data, chip, chan, v[1], v[2])
    /\ UNCHANGED <<chip, cfg_reg, conv_invalid, use_buffer, timestamp, now, corevars,
                   rvars, tvars, gvars>>

\* lines 481-482, 487-489 and 494, IIO_CHAN_INFO_SAMP_FREQ
ads1015_write_raw_samp_freq ==
    /\ lock = "none"
    /\ \E chan \in Chans, rate \in RateInputs :
       channel_data' = ads1015_set_data_rate(channel_data, chip, chan, rate)
    /\ UNCHANGED <<chip, cfg_reg, conv_invalid, use_buffer, timestamp, now, corevars,
                   rvars, tvars, gvars>>

----------------------------------------------------------------------------
(* The data-ready interrupt *)

\* an interrupt requested without IRQF_ONESHOT
LineNeverMasked(pc) == FALSE

\* line 763, IRQF_ONESHOT: the line is masked from the hard handler's
\* return until the thread has finished
LineMasked(pc) == pc # "idle"

\* a hard handler that takes data->lock around its store and sends the next
\* cycle down the full path
ads1015_irq_handler_locked ==
    /\ ~LineMasked(tpc)
    /\ lock = "none"
    /\ timestamp' = now
    /\ use_buffer' = FALSE
    /\ tpc' = "wake"
    /\ UNCHANGED <<chip, cfg_reg, channel_data, conv_invalid, now,
                   corevars, rvars, t_res, pushed, gvars>>

\* lines 659-666: the hard handler; the line stays masked (IRQF_ONESHOT)
\* until the thread has finished
ads1015_irq_handler ==
    /\ ~LineMasked(tpc)
    /\ timestamp' = now
    /\ tpc' = "wake"
    /\ UNCHANGED <<chip, cfg_reg, channel_data, conv_invalid, use_buffer, now,
                   corevars, rvars, t_res, pushed, gvars>>

\* lines 683-688: the thread leaves when the buffer is not enabled
ads1015_irq_handler_thread_begin ==
    /\ tpc = "wake"
    /\ IF ~buffer_enabled
       THEN use_buffer' = FALSE /\ tpc' = "idle"
       ELSE tpc' = "lock" /\ UNCHANGED use_buffer
    /\ UNCHANGED <<chip, cfg_reg, channel_data, conv_invalid, timestamp, now,
                   corevars, rvars, t_res, pushed, gvars>>

\* find_first_bit(indio_dev->active_scan_mask, indio_dev->masklength): the
\* mask is NULL once the buffer is disabled, and the read of it then yields
\* any index
ScanChans ==
    IF active_scan_mask = {}
    THEN Chans \cup {ADS1015_TIMESTAMP + 1}
    ELSE {CHOOSE c \in active_scan_mask : \A d \in active_scan_mask : c <= d}

\* the path the cycle takes, line 694
TakesFastPath(ub) == ub

\* a driver that drops back to the full path when the fast read fails
AfterFastFailReset(ub) == FALSE

\* lines 698-703: data->use_buffer after a fast read that failed
AfterFastFail(ub) == ub

\* lines 692-711: take the lock; either the fast read of the conversion
\* register, or the entry into ads1015_get_adc_result
ads1015_irq_handler_thread_locked ==
    /\ tpc = "lock"
    /\ lock = "none"
    /\ IF TakesFastPath(use_buffer)
       THEN /\ \E err \in BusResults :
               IF err # "OK"
               THEN /\ tpc' = AfterReadFailed
                    /\ t_res' = [Failed(err) EXCEPT !.path = "fast"]
                    /\ use_buffer' = AfterFastFail(use_buffer)
               ELSE /\ tpc' = "push"
                    /\ UNCHANGED use_buffer
                    /\ t_res' = [ret |-> "OK", path |-> "fast",
                                 inv |-> conv_invalid,
                                 cur |-> \E c \in active_scan_mask :
                                            CfgIsFor(cfg_reg, c)]
            /\ UNCHANGED <<lock, gvars>>
       ELSE /\ \E chan \in ScanChans : StartCall(chan)
            /\ lock' = "thread"
            /\ tpc' = "gar"
            /\ UNCHANGED <<t_res, use_buffer>>
    /\ UNCHANGED <<chip, cfg_reg, channel_data, conv_invalid, timestamp, now,
                   mlock, buffer_enabled, active_scan_mask, usage_count,
                   rpm_status, rvars, pushed>>

\* a thread that leaves data->use_buffer as it found it
AfterPushKeeps(ub) == ub

\* value of data->use_buffer at the end of a cycle that read a sample
AfterPush(ub) == TRUE

\* lines 728-735: hand the sample to the sink, which takes it only while
\* the buffer is enabled and has room
ads1015_irq_handler_thread_push ==
    /\ tpc = "push"
    /\ \E ok \in BOOLEAN :
       pushed' = IF ok /\ buffer_enabled
                 THEN [path |-> t_res.path, inv |-> t_res.inv,
                       cur |-> t_res.cur, ts |-> timestamp]
                 ELSE NoPush
    /\ use_buffer' = AfterPush(use_buffer)
    /\ tpc' = "done"
    /\ UNCHANGED <<chip, cfg_reg, channel_data, conv_invalid, timestamp, now,
                   corevars, rvars, t_res, gvars>>

\* lines 737-739: the end of a cycle
ads1015_irq_handler_thread_end ==
    /\ tpc = "done"
    /\ tpc' = "idle"
    /\ t_res' = NoRes
    /\ pushed' = NoPush
    /\ UNCHANGED <<devvars, corevars, rvars, gvars>>

----------------------------------------------------------------------------
(* The system *)

\* the register after power-up: mux, gain and rate at the driver's defaults,
\* single-shot mode, comparator disabled
PowerUpCfg ==
    BitOr(MergeCfg(0, 0, ADS1015_DEFAULT_PGA, ADS1015_DEFAULT_DATA_RATE),
          BitOr(ADS1015_CFG_MOD_MASK, ADS1015_CFG_COMP_QUE_MASK))

\* lines 835-893: what ads1015_probe leaves besides the configuration:
\* nothing buffered, nothing in progress, the device active and unused
ProbeRest ==
    /\ use_buffer = FALSE
    /\ timestamp = 0
    /\ now = 0
    /\ lock = "none"
    /\ mlock = "none"
    /\ buffer_enabled = FALSE
    /\ active_scan_mask = {}
    /\ usage_count = 0
    /\ rpm_status = "active"
    /\ rpc = "idle"
    /\ r_chan = 0
    /\ r_res = NoRes
    /\ tpc = "idle"
    /\ t_res = NoRes
    /\ pushed = NoPush
    /\ gpc = "none"
    /\ g_chan = 0
    /\ g_old = 0
    /\ g_cfg = 0
    /\ conv_time = 0
    /\ ops = <<>>
    /\ g_saw = FALSE
    /\ pending_resume = FALSE
    /\ fresh_enable = FALSE
    /\ t_first = FALSE

\* ads1015_probe
Probe ==
    /\ chip = "ADS1015"
    /\ cfg_reg = SetConvMode(UpdateBits(PowerUpCfg, ADS1015_CFG_COMP_QUE_MASK, 0),
                             ADS1015_CONTINUOUS)
    /\ channel_data = DefaultChannelData
    /\ conv_invalid = TRUE
    /\ ProbeRest

Init == Probe /\ monitor = FALSE /\ attr = NoAttr

\* the history variables: a resume is a step that takes the device from
\* suspended to active, a call starts when ads1015_get_adc_result is entered,
\* a cycle begins when the thread finds the buffer enabled (line 683).
\* They are recorded in the behaviours that start with monitor set.
History ==
    /\ monitor' = monitor
    /\ attr' = attr
    /\ IF monitor
       THEN LET resumed == rpm_status = "suspended" /\ rpm_status' = "active"
                started == gpc = "none" /\ gpc' # "none"
                enabled == ~buffer_enabled /\ buffer_enabled'
                begun   == tpc = "wake" /\ tpc' = "lock"
            IN  /\ pending_resume' = IF started THEN FALSE
                                     ELSE (pending_resume \/ resumed)
                /\ g_saw' = IF started THEN (pending_resume \/ resumed)
                            ELSE IF gpc' = "none" THEN FALSE
                            ELSE g_saw
                /\ fresh_enable' = IF begun THEN FALSE
                                   ELSE (fresh_enable \/ enabled)
                /\ t_first' = IF begun THEN fresh_enable
                              ELSE IF tpc' = "idle" THEN FALSE
                              ELSE t_first
       ELSE UNCHANGED <<pending_resume, g_saw, fresh_enable, t_first>>

Next ==
    \/ ads1015_read_raw_begin /\ History
    \/ ads1015_read_raw_claim /\ History
    \/ ads1015_read_raw_exit /\ History
    \/ get_adc_result_cfgread /\ History
    \/ get_adc_result_cfgwrite /\ History
    \/ get_adc_result_wait /\ History
    \/ get_adc_result_convread /\ History
    \/ ads1015_write_raw_scale /\ History
    \/ ads1015_write_raw_samp_freq /\ History
    \/ ads1015_buffer_preenable /\ History
    \/ ads1015_buffer_postdisable /\ History
    \/ ads1015_runtime_suspend /\ History
    \/ ads1015_irq_handler /\ History
    \/ ads1015_irq_handler_thread_begin /\ History
    \/ ads1015_irq_handler_thread_locked /\ History
    \/ ads1015_irq_handler_thread_push /\ History
    \/ ads1015_irq_handler_thread_end /\ History

Spec == Init /\ [][Next]_vars

\* the same program with the history recorded
InitHist == Probe /\ monitor = TRUE /\ attr = NoAttr

SpecHist == InitHist /\ [][Next]_vars

\* direct reads only, of either chip, from every pair of a rate left in the
\* device word by an earlier acquisition and a rate stored for the channel:
\* ads1015_get_adc_result computes the settling delay from these two
InitRates ==
    /\ chip \in Chips
    /\ \E d \in 0 .. 7 :
          cfg_reg = UpdateBits(
                        SetConvMode(UpdateBits(PowerUpCfg,
                                               ADS1015_CFG_COMP_QUE_MASK, 0),
                                    ADS1015_CONTINUOUS),
                        ADS1015_CFG_DR_MASK, Shl(d, ADS1015_CFG_DR_SHIFT))
    /\ \E r \in 0 .. 7 :
          channel_data = [c \in 0 .. ADS1015_CHANNELS - 1 |->
                             [pga |-> ADS1015_DEFAULT_PGA, data_rate |-> r]]
    /\ conv_invalid \in BOOLEAN
    /\ ProbeRest
    /\ monitor = FALSE
    /\ attr = NoAttr

NextRates ==
    \/ ads1015_read_raw_begin /\ History
    \/ ads1015_read_raw_claim /\ History
    \/ ads1015_read_raw_exit /\ History
    \/ get_adc_result_cfgread /\ History
    \/ get_adc_result_cfgwrite /\ History
    \/ get_adc_result_wait /\ History
    \/ get_adc_result_convread /\ History

SpecRates == InitRates /\ [][NextRates]_vars

\* time passes
Tick ==
    /\ now < MaxTime
    /\ now' = now + 1
    /\ UNCHANGED <<chip, cfg_reg, channel_data, conv_invalid, use_buffer,
                   timestamp, corevars, rvars, tvars, gvars, hist, attr>>

\* the program with the clock running
NextClock ==
    \/ Tick
    \/ Next

SpecClock == Init /\ [][NextClock]_vars

\* the program when bus transfers and sleeps return: whoever holds
\* data->lock keeps running
LockHolderRuns ==
    /\ WF_vars(ads1015_read_raw_claim /\ History)
    /\ WF_vars(get_adc_result_cfgread /\ History)
    /\ WF_vars(get_adc_result_cfgwrite /\ History)
    /\ WF_vars(get_adc_result_wait /\ History)
    /\ WF_vars(get_adc_result_convread /\ History)

SpecLive == Spec /\ LockHolderRuns

----------------------------------------------------------------------------
(* The scale and sampling-frequency attributes *)

\* lines 499-502: the scales the chip advertises in scale_available, as
\* (val, val2) with val2 in millionths
ScaleAvailable(c) ==
    IF c = "ADS1015"
    THEN {<<3, 0>>, <<2, 0>>, <<1, 0>>, <<0, 500000>>, <<0, 250000>>,
          <<0, 125000>>}
    ELSE {<<0, 187500>>, <<0, 125000>>, <<0, 62500>>, <<0, 31250>>,
          <<0, 15625>>, <<0, 7813>>}

\* the scales written: the advertised ones, then for both chips 5.0, the
\* scale of a 5000 mV range of the ADS1015, 0.0625, and 256 / 2^15 cut to
\* six digits
ScaleWrites(c) ==
    ScaleAvailable(c) \cup {<<5, 0>>, <<2, 441406>>, <<0, 62500>>, <<0, 7812>>}

\* the rates written: every entry of both rate tables, and two of neither
RateWrites ==
    {ads1015_data_rate[i] : i \in 1 .. 8} \cup {ads1115_data_rate[i] : i \in 1 .. 8}
    \cup {7, 1000}

\* lines 377-386: what ads1015_set_scale returns
ads1015_set_scale_ret(c, scale, uscale) ==
    IF FirstIndex(ads1015_fullscale_range, Fullscale(c, scale, uscale)) >= 0
    THEN "OK" ELSE "EINVAL"

\* lines 393-402: what ads1015_set_data_rate returns
ads1015_set_data_rate_ret(c, rate) ==
    IF FirstIndex(RateTable(c), rate) >= 0 THEN "OK" ELSE "EINVAL"

\* the record of a write of (val, val2) to attribute op that returned ret
Written(op, val, val2, ret) ==
    [attr EXCEPT
        !.w_op = op, !.w_val = val, !.w_val2 = val2, !.w_ret = ret,
        !.w_before = channel_data,
        !.w_rep = (attr.w_op = op /\ attr.w_val = val /\ attr.w_val2 = val2
                   /\ attr.w_ret = "OK" /\ ret = "OK"),
        !.r_op = "none", !.r_val = 0, !.r_val2 = 0]

\* lines 481-486 and 494: ads1015_write_raw, IIO_CHAN_INFO_SCALE, with what
\* it returns
attr_write_scale ==
    /\ lock = "none"
    /\ \E v \in ScaleWrites(chip) :
       /\ channel_data' =
              ads1015_set_scale(channel_data, chip, attr.chan, v[1], v[2])
       /\ attr' = Written("scale", v[1], v[2],
                          ads1015_set_scale_ret(chip, v[1], v[2]))
    /\ UNCHANGED <<chip, cfg_reg, conv_invalid, use_buffer, timestamp, now, corevars,
                   rvars, tvars, gvars, hist>>

\* lines 481-482, 487-489 and 494: ads1015_write_raw,
\* IIO_CHAN_INFO_SAMP_FREQ, with what it returns
attr_write_samp_freq ==
    /\ lock = "none"
    /\ \E rate \in RateWrites :
       /\ channel_data' =
              ads1015_set_data_rate(channel_data, chip, attr.chan, rate)
       /\ attr' = Written("samp_freq", rate, 0,
                          ads1015_set_data_rate_ret(chip, rate))
    /\ UNCHANGED <<chip, cfg_reg, conv_invalid, use_buffer, timestamp, now, corevars,
                   rvars, tvars, gvars, hist>>

\* lines 454-459: ads1015_read_raw, IIO_CHAN_INFO_SCALE: the scale is
\* val / 2^val2 (IIO_VAL_FRACTIONAL_LOG2)
attr_read_scale ==
    /\ lock = "none"
    /\ attr' = [attr EXCEPT
                   !.r_op = "scale",
                   !.r_val = ads1015_fullscale_range[
                                channel_data[attr.chan].pga + 1],
                   !.r_val2 = realbits(chip) - 1]
    /\ UNCHANGED <<devvars, corevars, rvars, tvars, gvars, hist>>

\* lines 460-464: ads1015_read_raw, IIO_CHAN_INFO_SAMP_FREQ (IIO_VAL_INT)
attr_read_samp_freq ==
    /\ lock = "none"
    /\ attr' = [attr EXCEPT
                   !.r_op = "samp_freq",
                   !.r_val = data_rate(chip, channel_data[attr.chan].data_rate),
                   !.r_val2 = 0]
    /\ UNCHANGED <<devvars, corevars, rvars, tvars, gvars, hist>>

\* either chip after probe, the attributes of one channel written and read
InitAttr ==
    /\ chip \in Chips
    /\ cfg_reg = SetConvMode(UpdateBits(PowerUpCfg, ADS1015_CFG_COMP_QUE_MASK, 0),
                             ADS1015_CONTINUOUS)
    /\ channel_data = DefaultChannelData
    /\ conv_invalid = TRUE
    /\ ProbeRest
    /\ monitor = FALSE
    /\ \E c \in Chans : attr = [NoAttr EXCEPT !.chan = c]

NextAttr ==
    \/ attr_write_scale
    \/ attr_write_samp_freq
    \/ attr_read_scale
    \/ attr_read_samp_freq

SpecAttr == InitAttr /\ [][NextAttr]_vars

----------------------------------------------------------------------------
(* Properties *)

\* the stored gain or rate of the channel of the call in progress differs
\* from the configuration word the call read
Stale(w, chan) ==
    \/ CfgPga(w) # channel_data[chan].pga
    \/ CfgDr(w) # channel_data[chan].data_rate

Waited == \E i \in DOMAIN ops : ops[i] = "wait"

\* C1: a value read from the conversion register, to be returned by a direct
\* read or pushed by a buffered cycle, is read while conv_invalid is false:
\* on the full path and on the fast path alike
C1_ReadWhileValid ==
    /\ (r_res.ret = "IIO_VAL_INT" => ~r_res.inv)
    /\ (pushed.path # "none" => ~pushed.inv)

\* C2: while the buffer is enabled no direct acquisition is in progress, and
\* a direct read that finds the buffer enabled returns EAGAIN with no sample,
\* without touching the power reference or any register
C2_DirectReadRefused ==
    /\ [](rpc = "gar" => ~buffer_enabled)
    /\ [][(rpc = "idle" /\ rpc' # "idle" /\ buffer_enabled)
            => /\ rpc' = "ret"
               /\ r_res' = Failed("EAGAIN")
               /\ UNCHANGED <<usage_count, rpm_status, cfg_reg, conv_invalid,
                              gvars>>]_vars

C2_Refused ==
    /\ rpc = "ret"
    /\ r_res.ret = "EAGAIN"
    /\ buffer_enabled

\* C3: the first cycle that begins after the buffer was enabled finds
\* use_buffer false when it chooses its path, so it takes the full path
C3_FirstCycleFullPath ==
    (tpc = "lock" /\ t_first) => ~use_buffer

C5_WriteLeavesSteadyState ==
    [][(buffer_enabled /\ use_buffer
        /\ \E c \in active_scan_mask : channel_data'[c] # channel_data[c])
         => ~use_buffer']_vars

\* C6: a resume leaves conv_invalid true, and the first call of
\* ads1015_get_adc_result that starts after a resume has waited for the
\* conversion to settle when it comes to read the conversion register
C6_WaitAfterResume ==
    (gpc = "convread" /\ g_saw) => Waited

\* C7: a call that reads a configuration word whose gain or rate differs
\* from the ones stored for its channel writes the merged word, then waits
\* the computed delay, and only then reads the conversion register
C7_WriteWaitRead ==
    /\ (gpc = "convread" /\ Stale(g_old, g_chan))
           => ops = <<"cfg_read", "cfg_write", "wait">>
    /\ (gpc = "wait" /\ Stale(g_old, g_chan))
           => (ops = <<"cfg_read", "cfg_write">> /\ conv_time > 0)

C7_Settled ==
    /\ gpc = "convread"
    /\ Stale(g_old, g_chan)
    /\ ops = <<"cfg_read", "cfg_write", "wait">>

\* C8 (as stated): a call that reads a configuration word already holding
\* the mux, gain and rate of its channel neither writes nor waits
C8_NoWriteNoWait ==
    (gpc \in {"wait", "convread"} /\ CfgIsFor(g_old, g_chan))
        => ops = <<"cfg_read">>

\* C8 (amended): such a call never writes the configuration register, and it
\* waits exactly when conv_invalid is set at the time it read the word
C8_NoWriteWaitIffInvalid ==
    [][(gpc = "cfgread" /\ gpc' \in {"cfgwrite", "wait", "convread"}
        /\ CfgIsFor(cfg_reg, g_chan))
         => /\ gpc' = IF conv_invalid THEN "wait" ELSE "convread"
            /\ cfg_reg' = cfg_reg
            /\ ops' = <<"cfg_read">>]_vars

C8_Straight ==
    /\ gpc = "convread"
    /\ CfgIsFor(g_old, g_chan)
    /\ ops = <<"cfg_read">>

\* C9: when ads1015_get_adc_result returns a sample, the configuration
\* register holds the mux, gain and rate of the channel asked for
C9_CfgIsCurrent ==
    /\ (r_res.ret = "IIO_VAL_INT" => r_res.cur)
    /\ ((t_res.ret = "OK" /\ t_res.path = "full") => t_res.cur)

C9_Returned ==
    /\ r_res.ret = "IIO_VAL_INT"
    /\ rpc = "ret"

\* the period of one conversion in microseconds, rounded up
Period(c, i) == (USEC_PER_SEC + data_rate(c, i) - 1) \div data_rate(c, i)

\* the sum of the periods of the rate in the word read and of the rate stored
PeriodSum ==
    Period(chip, CfgDr(g_old)) + Period(chip, channel_data[g_chan].data_rate)

\* C10 (as stated): the delay is the sum of the two periods times 1.1,
\* rounded up
C10_DelayRoundedUp ==
    gpc = "wait" => conv_time = (11 * PeriodSum + 9) \div 10

\* C10 (amended): the delay is the sum of the two periods plus a tenth of it
\* rounded down; from 128 to 3300 samples a second on the ADS1015 the sum is
\* 8117 and the delay 8928 microseconds
C10_DelayTruncated ==
    /\ gpc = "wait" => conv_time = PeriodSum + PeriodSum \div 10
    /\ (gpc = "wait" /\ chip = "ADS1015" /\ CfgDr(g_old) = 0
        /\ channel_data[g_chan].data_rate = 6)
           => (PeriodSum = 8117 /\ conv_time = 8928)

C10_From128To3300 ==
    /\ gpc = "wait"
    /\ chip = "ADS1015"
    /\ CfgDr(g_old) = 0
    /\ channel_data[g_chan].data_rate = 6
    /\ conv_time = 8928

\* the scale read back, val / 2^val2, is the scale written,
\* w_val + w_val2 / 1000000 (both sides divided by 64 to stay in 32 bits)
SameScale ==
    attr.r_val * 15625 = (attr.w_val * 1000000 + attr.w_val2) * Pow2(attr.r_val2 - 6)

\* C11: a scale the chip advertises, and a rate of its table, is accepted
\* and read back as written, and a repeated write leaves the store as it was
C11_RoundTrip ==
    /\ (attr.w_op = "scale"
        /\ <<attr.w_val, attr.w_val2>> \in ScaleAvailable(chip))
           => /\ attr.w_ret = "OK"
              /\ attr.r_op = "scale" => SameScale
    /\ (attr.w_op = "samp_freq"
        /\ \E i \in 1 .. 8 : RateTable(chip)[i] = attr.w_val)
           => /\ attr.w_ret = "OK"
              /\ attr.r_op = "samp_freq" => attr.r_val = attr.w_val
    /\ attr.w_rep => channel_data = attr.w_before

\* C12: a scale whose full-scale range is in no entry of the gain table,
\* and a rate that is in no entry of the chip's rate table, is refused with
\* EINVAL, and a refused write leaves the gain and rate of every channel
\* as they were
C12_InvalidRejected ==
    /\ (attr.w_op = "scale"
        /\ \A i \in 1 .. Len(ads1015_fullscale_range) :
              ads1015_fullscale_range[i]
                  # Fullscale(chip, attr.w_val, attr.w_val2))
           => attr.w_ret = "EINVAL"
    /\ (attr.w_op = "samp_freq"
        /\ \A i \in 1 .. 8 : RateTable(chip)[i] # attr.w_val)
           => attr.w_ret = "EINVAL"
    /\ attr.w_ret = "EINVAL" => channel_data = attr.w_before

C12_Refused5000mV ==
    /\ chip = "ADS1015"
    /\ attr.w_op = "scale"
    /\ attr.w_val = 2
    /\ attr.w_val2 = 441406
    /\ attr.w_ret = "EINVAL"
    /\ channel_data[attr.chan].pga = 5

BadChan(chan) == chan < 0 \/ chan >= ADS1015_CHANNELS

\* C13: a call of ads1015_get_adc_result for a channel outside
\* 0 .. ADS1015_CHANNELS - 1 has accessed no register while it is in
\* progress, and it ends with EINVAL for its caller, the configuration
\* register and conv_invalid as they were
C13_BadChanRejected ==
    /\ []((gpc # "none" /\ BadChan(g_chan)) => (gpc = "cfgread" /\ ops = <<>>))
    /\ [][(gpc = "cfgread" /\ BadChan(g_chan) /\ gpc' # gpc)
            => /\ gpc' = "none"
               /\ cfg_reg' = cfg_reg
               /\ conv_invalid' = conv_invalid
               /\ IF lock = "read" THEN r_res'.ret = "EINVAL"
                                   ELSE t_res'.ret = "EINVAL"]_vars

C13_Rejected ==
    /\ tpc = "done"
    /\ t_res.ret = "EINVAL"
    /\ t_res.path = "full"
    /\ pushed.path = "none"

\* C14: the configuration register, conv_invalid and use_buffer change only
\* in steps taken while data->lock is held
C14_TripleUnderLock ==
    [][(<<cfg_reg, conv_invalid, use_buffer>>' # <<cfg_reg, conv_invalid, use_buffer>>)
         => lock # "none"]_vars

\* C15: dropping a power reference changes neither the configuration
\* register nor conv_invalid nor the power state; the mode bit goes from
\* continuous to single-shot only while no power reference is held; the
\* device is active throughout a direct acquisition and while the buffer is
\* enabled
C15_SuspendOnlyWhenIdle ==
    /\ [](rpc = "gar" => (rpm_status = "active" /\ usage_count > 0))
    /\ [](buffer_enabled => (rpm_status = "active" /\ usage_count > 0))
    /\ [][usage_count' < usage_count
            => UNCHANGED <<cfg_reg, conv_invalid, rpm_status>>]_vars
    /\ [][(CfgMode(cfg_reg) = ADS1015_CONTINUOUS
           /\ CfgMode(cfg_reg') = ADS1015_SINGLESHOT)
            => usage_count = 0]_vars

\* C16: the hard handler stores the time at which it runs; from then until
\* the cycle it started has ended nothing writes data->timestamp; and the
\* time handed to the sink with a sample is data->timestamp
C16_TimestampOfCycle ==
    /\ [][(tpc = "idle" /\ tpc' = "wake") => timestamp' = now]_vars
    /\ [][tpc # "idle" => timestamp' = timestamp]_vars
    /\ [](pushed.path # "none" => pushed.ts = timestamp)

C16_PushedEarlierTime ==
    /\ tpc = "done"
    /\ pushed.path # "none"
    /\ pushed.ts > 0
    /\ pushed.ts < now

\* C17: a cycle whose read failed ends with nothing handed to the sink and
\* with the lock released; no step of the pipeline disables the buffer or
\* changes the scan mask; the failed cycle ends in the idle state, where the
\* next interrupt is taken, and a cycle that finds the buffer enabled goes on
\* to a read (the fast read, or the entry into ads1015_get_adc_result)
C17_FailedCycleGoesOn ==
    /\ []((tpc = "done" /\ t_res.ret # "OK")
            => (pushed = NoPush /\ lock # "thread"))
    /\ [][tpc' # tpc => UNCHANGED <<buffer_enabled, active_scan_mask>>]_vars
    /\ [][(tpc = "done" /\ t_res.ret # "OK" /\ tpc' # tpc)
            => (tpc' = "idle" /\ pushed' = NoPush)]_vars
    /\ [](tpc = "idle" => ENABLED (ads1015_irq_handler /\ History))
    /\ [][(tpc = "wake" /\ buffer_enabled /\ tpc' # tpc) => tpc' = "lock"]_vars
    /\ [][(tpc = "lock" /\ tpc' # tpc)
            => \/ tpc' = "gar" /\ gpc' = "cfgread"
               \/ tpc' = "push" /\ t_res'.path = "fast"
               \/ tpc' = "done" /\ t_res'.path = "fast" /\ t_res'.ret # "OK"]_vars

C17_ReadFailed ==
    /\ tpc = "done"
    /\ t_res.ret \in BusErrors
    /\ buffer_enabled
    /\ lock = "none"
    /\ pushed = NoPush

\* C18: a cycle that read a sample ends with use_buffer set, whatever the
\* sink did with the sample; use_buffer is cleared only by a cycle that finds
\* the buffer disabled; and a cycle that finds use_buffer set does the one
\* read of the conversion register: no call of ads1015_get_adc_result, so no
\* access to the configuration register and no wait
C18_FastAfterSuccess ==
    /\ []((tpc = "done" /\ t_res.ret = "OK") => use_buffer)
    /\ [][(use_buffer /\ ~use_buffer') => (tpc = "wake" /\ ~buffer_enabled)]_vars
    /\ [][(tpc = "lock" /\ use_buffer /\ tpc' # tpc)
            => /\ tpc' \in {"push", "done"}
               /\ t_res'.path = "fast"
               /\ UNCHANGED <<gvars, cfg_reg, conv_invalid, lock>>]_vars

C18_FastCyclePushFailed ==
    /\ tpc = "done"
    /\ t_res.ret = "OK"
    /\ t_res.path = "fast"
    /\ buffer_enabled
    /\ pushed = NoPush
    /\ use_buffer

\* what the step that ends a call of ads1015_get_adc_result hands to the
\* caller
ReturnedCode == IF lock = "read" THEN r_res'.ret ELSE t_res'.ret

\* C19: within one call the configuration register is read once, written at
\* most once after that, and the call waits at most once; a call that has
\* not ended has not read the conversion register; the step that ends a call
\* made for a valid channel at the read or the write of the configuration
\* register returns the code of the bus and leaves conv_invalid and the
\* register alone; the step that ends it at the read of the conversion
\* register returns the sample or the code of the bus; and a call that has
\* ended issues nothing more
C19_OnceAndFirstErrorEnds ==
    /\ [](ops \in {<<>>, <<"cfg_read">>, <<"cfg_read", "cfg_write">>,
                    <<"cfg_read", "wait">>,
                    <<"cfg_read", "cfg_write", "wait">>})
    /\ []((gpc = "none") => (ops = <<>>))
    /\ [][(gpc \in {"cfgread", "cfgwrite"} /\ ~BadChan(g_chan) /\ gpc' = "none")
            => /\ ReturnedCode \in BusErrors
               /\ UNCHANGED <<conv_invalid, cfg_reg>>]_vars
    /\ [][(gpc = "convread" /\ gpc' = "none")
            => /\ ReturnedCode \in BusErrors \cup {"OK", "IIO_VAL_INT"}
               /\ UNCHANGED <<conv_invalid, cfg_reg>>]_vars
    /\ [][(gpc # "none" /\ gpc' # gpc /\ gpc' # "none")
            => (Len(ops') = Len(ops) + 1)]_vars

C19_CallFailed ==
    /\ gpc = "none"
    /\ tpc = "done"
    /\ t_res.ret \in BusErrors
    /\ t_res.path = "full"
    /\ conv_invalid = FALSE
    /\ \E c \in Chans : ~CfgIsFor(cfg_reg, c) /\ active_scan_mask = {c}

\* C20: the hard handler can run whoever holds data->lock and whatever the
\* power state is; its step stores the time in data->timestamp and wakes the
\* thread, and leaves the configuration register, the channel settings,
\* conv_invalid, use_buffer, both locks, the power state, the buffer state
\* and every call in progress as they were
C20_HandlerOnlyStamps ==
    /\ [](tpc = "idle" => ENABLED (ads1015_irq_handler /\ History))
    /\ [][(tpc = "idle" /\ tpc' = "wake")
            => /\ timestamp' = now
               /\ UNCHANGED <<chip, cfg_reg, channel_data, conv_invalid,
                              use_buffer, now, lock, mlock, buffer_enabled,
                              active_scan_mask, usage_count, rpm_status,
                              rvars, gvars, t_res, pushed>>]_vars

C20_StampedDuringDirectRead ==
    /\ tpc = "wake"
    /\ timestamp = now
    /\ now > 0
    /\ lock = "read"
    /\ gpc = "wait"
    /\ use_buffer

\* the bits of a configuration word outside the mux, gain and rate fields:
\* the operating mode, the comparator fields and the start bit
KeptBits(w) ==
    BitAnd(w, BitNot(BitOr(BitOr(ADS1015_CFG_MUX_MASK, ADS1015_CFG_PGA_MASK),
                           ADS1015_CFG_DR_MASK)))

\* C21: the word ads1015_get_adc_result programs has the mode and comparator
\* bits of the word it read, and its write of the configuration register
\* changes nothing in the register but the mux, gain and rate fields, so
\* that it never takes the device out of continuous mode
C21_WriteKeepsModeAndComparator ==
    /\ []((gpc \in {"cfgwrite", "wait", "convread"})
            => KeptBits(g_cfg) = KeptBits(g_old))
    /\ [][(gpc = "cfgwrite" /\ gpc' \in {"wait", "convread"})
            => (cfg_reg' = g_cfg /\ KeptBits(cfg_reg') = KeptBits(cfg_reg))]_vars

\* C22: a sample handed to the sink was read from the conversion register
\* while the mux, gain and rate fields of the configuration register were
\* those of the scan channel and of the gain and rate stored for it
C22_PushedFromCurrentCfg ==
    pushed.path # "none" => pushed.cur

\* C23: the usage counter counts one reference for the enabled buffer and
\* one for a direct read that is inside ads1015_get_adc_result, and nothing
\* else: so every direct read returns with the counter where it found it,
\* a direct read turned away before the acquisition leaves it untouched,
\* and with the buffer disabled and no read in progress the counter is zero
\* and the active device can be suspended
C23_PowerBalanced ==
    /\ [](usage_count = (IF buffer_enabled THEN 1 ELSE 0)
                        + (IF rpc = "gar" THEN 1 ELSE 0))
    /\ [][(rpc \in {"idle", "claim"} /\ rpc' = "ret")
            => usage_count' = usage_count]_vars
    /\ [][(rpc = "gar" /\ rpc' = "ret") => usage_count' = usage_count - 1]_vars
    /\ []((usage_count = 0 /\ rpm_status = "active")
            => ENABLED (ads1015_runtime_suspend /\ History))

C23_FailedReadReleased ==
    /\ rpc = "ret"
    /\ r_res.ret \in BusErrors
    /\ rpm_status = "active"
    /\ usage_count = 0
    /\ ~buffer_enabled

\* C24: data->lock is held by the direct read only between its claim and
\* its return, and by the thread only inside ads1015_get_adc_result; a
\* direct read that has returned holds neither the lock nor the direct-mode
\* claim; the step the holder takes next never waits for anything (the
\* power-up it makes under the lock does not take the lock); some step of
\* the program is always possible; and a lock that is held is released
C24_LockAlwaysReleased ==
    /\ [](lock = "read" <=> rpc \in {"claim", "gar"})
    /\ [](lock = "thread" <=> tpc = "gar")
    /\ [](mlock = "direct" <=> rpc = "gar")
    /\ [](rpc = "claim" => ENABLED (ads1015_read_raw_claim /\ History))
    /\ [](gpc # "none" =>
            ENABLED ((\/ get_adc_result_cfgread
                      \/ get_adc_result_cfgwrite
                      \/ get_adc_result_wait
                      \/ get_adc_result_convread) /\ History))
    /\ [](ENABLED Next)
    /\ ((lock # "none") ~> (lock = "none"))

C24_ResumeFailedUnderLock ==
    /\ rpc = "ret"
    /\ r_res.ret \in BusErrors
    /\ rpm_status = "suspended"
    /\ lock = "none"
    /\ mlock = "none"

====
